---- MODULE Spec2Model ----
(***************************************************************************)
(* Model of util/board.py: the script reads a FEN piece-placement field    *)
(* from argv, builds a chess.Board from it, takes the twelve per-piece     *)
(* square sets, forms the white / black / all unions and prints each       *)
(* piece set as the integer obtained from the set's textual rendering.     *)
(*                                                                         *)
(* Representation.  A string is a sequence of one-character strings.  A    *)
(* square set (chess.SquareSet) is a set of squares 0..63 in the library's *)
(* numbering (a1 = 0, h1 = 7, a8 = 56, h8 = 63).  A Python integer is      *)
(* represented by the set of exponents of its binary expansion (bit i set  *)
(* iff i is in the set), because 2^63 is outside TLC's integer range; on   *)
(* this representation bitwise AND is intersection, bitwise OR is union,   *)
(* the population count is Cardinality and integer equality is set         *)
(* equality.                                                               *)
(***************************************************************************)
EXTENDS Integers, Sequences, FiniteSets, TLC

VARIABLES pc, fen, board, err,
          WP, WR, WN, WB, WK, WQ,
          BP, BR, BN, BB, BK, BQ,
          white, black, all, out

vars == <<pc, fen, board, err, WP, WR, WN, WB, WK, WQ,
          BP, BR, BN, BB, BK, BQ, white, black, all, out>>

(***************************************************************************)
(* Bounds of the input space.                                              *)
(***************************************************************************)
\* number of rank segments of an 8-segment field that may differ from "8"
MaxCustom == 2
\* the same, for fields with 7 or 9 segments
MaxCustomOdd == 1

(***************************************************************************)
(* Characters.                                                             *)
(***************************************************************************)
Digits == {"1", "2", "3", "4", "5", "6", "7", "8"}

DigitValue(c) ==
    CASE c = "1" -> 1 [] c = "2" -> 2 [] c = "3" -> 3 [] c = "4" -> 4
      [] c = "5" -> 5 [] c = "6" -> 6 [] c = "7" -> 7 [] c = "8" -> 8

\* chess.PIECE_SYMBOLS without its leading None: index = piece type
\* (PAWN = 1, KNIGHT = 2, BISHOP = 3, ROOK = 4, QUEEN = 5, KING = 6)
PIECE_SYMBOLS == <<"p", "n", "b", "r", "q", "k">>

PAWN == 1
KNIGHT == 2
BISHOP == 3
ROOK == 4
QUEEN == 5
KING == 6

WHITE == TRUE
BLACK == FALSE

\* str.lower() on the characters of the input alphabet
Lower(c) ==
    CASE c = "P" -> "p" [] c = "N" -> "n" [] c = "B" -> "b"
      [] c = "R" -> "r" [] c = "Q" -> "q" [] c = "K" -> "k"
      [] c = "X" -> "x" [] OTHER -> c

\* str.isupper() on the characters of the input alphabet
IsUpper(c) == c \in {"P", "N", "B", "R", "Q", "K", "X"}

IsPieceSymbol(c) == \E t \in 1..Len(PIECE_SYMBOLS) : PIECE_SYMBOLS[t] = Lower(c)

\* PIECE_SYMBOLS.index(symbol.lower()) of Piece.from_symbol
PieceTypeOf(c) == CHOOSE t \in 1..Len(PIECE_SYMBOLS) : PIECE_SYMBOLS[t] = Lower(c)

(***************************************************************************)
(* chess.Board(fen): the board part of the FEN is validated and then the   *)
(* pieces are put on a cleared board (python-chess, Board.set_fen and      *)
(* BaseBoard._set_board_fen).  The fields considered hold no white space,  *)
(* so set_fen's split on white space yields the board part alone and the   *)
(* remaining FEN parts take their defaults.  Every failure is a ValueError *)
(* raised before the board is changed; err records which one:              *)
(*   "rows"     expected 8 rows in position part of fen                    *)
(*   "digits"   two subsequent digits in position part of fen              *)
(*   "tilde"    '~' not after piece in position part of fen                *)
(*   "char"     invalid character in position part of fen                  *)
(*   "columns"  expected 8 columns per row in position part of fen         *)
(***************************************************************************)
\* fen.split("/"): the pieces between consecutive separators, empty pieces
\* included; the k-th piece lies between the (k-1)-th and the k-th "/"
Split(s) ==
    LET seps   == {i \in 1..Len(s) : s[i] = "/"}
        n      == Cardinality(seps) + 1
        Sep(k) == IF k = 0 THEN 0
                  ELSE IF k = n THEN Len(s) + 1
                  ELSE CHOOSE i \in seps :
                         Cardinality({j \in seps : j <= i}) = k
    IN  [k \in 1..n |-> SubSeq(s, Sep(k - 1) + 1, Sep(k) - 1)]

\* variant: more than 8 rows pass the row-count test
RowCountAtLeast(rows) == Len(rows) >= 8

\* the row-count test: len(rows) != 8 raises "expected 8 rows"
RowCountOk(rows) == Len(rows) = 8

\* variant: a row shorter than 8 squares passes the column test
RECURSIVE ScanRowShortOk(_, _, _, _, _)
ScanRowShortOk(row, i, field_sum, previous_was_digit, previous_was_piece) ==
    IF i > Len(row)
    THEN IF field_sum > 8 THEN "columns" ELSE "ok"
    ELSE LET c == row[i] IN
         IF c \in Digits
         THEN IF previous_was_digit THEN "digits"
              ELSE ScanRowShortOk(row, i + 1, field_sum + DigitValue(c),
                                  TRUE, FALSE)
         ELSE IF c = "~"
         THEN IF ~previous_was_piece THEN "tilde"
              ELSE ScanRowShortOk(row, i + 1, field_sum, FALSE, FALSE)
         ELSE IF IsPieceSymbol(c)
         THEN ScanRowShortOk(row, i + 1, field_sum + 1, FALSE, TRUE)
         ELSE "char"

\* the scan of one row: the kind of the ValueError it raises, or "ok"
RECURSIVE ScanRow(_, _, _, _, _)
ScanRow(row, i, field_sum, previous_was_digit, previous_was_piece) ==
    IF i > Len(row)
    THEN IF field_sum # 8 THEN "columns" ELSE "ok"
    ELSE LET c == row[i] IN
         IF c \in Digits
         THEN IF previous_was_digit THEN "digits"
              ELSE ScanRow(row, i + 1, field_sum + DigitValue(c), TRUE, FALSE)
         ELSE IF c = "~"
         THEN IF ~previous_was_piece THEN "tilde"
              ELSE ScanRow(row, i + 1, field_sum, FALSE, FALSE)
         ELSE IF IsPieceSymbol(c)
         THEN ScanRow(row, i + 1, field_sum + 1, FALSE, TRUE)
         ELSE "char"

ValidateRow(row) == ScanRow(row, 1, 0, FALSE, FALSE)

\* variant: the last row is not validated
RECURSIVE ValidateRowsSkipLast(_, _)
ValidateRowsSkipLast(rows, i) ==
    IF i >= Len(rows) THEN "ok"
    ELSE LET r == ValidateRow(rows[i]) IN
         IF r # "ok" THEN r ELSE ValidateRowsSkipLast(rows, i + 1)

\* rows are validated in order; the first failing row raises
RECURSIVE ValidateRows(_, _)
ValidateRows(rows, i) ==
    IF i > Len(rows) THEN "ok"
    ELSE LET r == ValidateRow(rows[i]) IN
         IF r # "ok" THEN r ELSE ValidateRows(rows, i + 1)

\* the kind of the ValueError raised for the field, or "ok"
ValidateFen(f) ==
    LET rows == Split(f) IN
    IF ~RowCountOk(rows) THEN "rows" ELSE ValidateRows(rows, 1)

\* BaseBoard._clear_board
EmptyBoard ==
    [bb |-> [t \in 1..6 |-> {}],
     occupied_co |-> [c \in BOOLEAN |-> {}],
     occupied |-> {},
     promoted |-> {}]

\* variant: the squares are not mirrored
SquaresNoMirror(i) == i

\* chess.SQUARES_180[i] = i ^ 0x38: the square mirrored vertically
SQUARES_180(i) == (7 - (i \div 8)) * 8 + (i % 8)

\* BaseBoard._remove_piece_at
RemovePieceAt(b, square) ==
    [bb |-> [t \in 1..6 |-> b.bb[t] \ {square}],
     occupied_co |-> [c \in BOOLEAN |-> b.occupied_co[c] \ {square}],
     occupied |-> b.occupied \ {square},
     promoted |-> b.promoted \ {square}]

\* variant: the square is marked occupied for both colours
SetPieceAtBothColors(b, square, piece_type, color) ==
    LET r == RemovePieceAt(b, square) IN
    [bb |-> [r.bb EXCEPT ![piece_type] = @ \cup {square}],
     occupied_co |-> [c \in BOOLEAN |-> r.occupied_co[c] \cup {square}],
     occupied |-> r.occupied \cup {square},
     promoted |-> r.promoted]

\* BaseBoard._set_piece_at
SetPieceAt(b, square, piece_type, color) ==
    LET r == RemovePieceAt(b, square) IN
    [bb |-> [r.bb EXCEPT ![piece_type] = @ \cup {square}],
     occupied_co |-> [r.occupied_co EXCEPT ![color] = @ \cup {square}],
     occupied |-> r.occupied \cup {square},
     promoted |-> r.promoted]

\* the body of the placement loop "for c in fen": st is the pair of
\* square_index and the board before the character c, the result the pair after
PutChar(c, st) ==
    LET square_index == st[1]
        b            == st[2]
    IN  IF c \in Digits
        THEN <<square_index + DigitValue(c), b>>
        ELSE IF IsPieceSymbol(c)
        THEN <<square_index + 1,
               SetPieceAt(b, SQUARES_180(square_index),
                          PieceTypeOf(c), IsUpper(c))>>
        ELSE IF c = "~"
        THEN <<square_index,
               [b EXCEPT !.promoted = @ \cup {SQUARES_180(square_index - 1)}]>>
        ELSE st

\* the placement loop over the characters lo..hi of the field, left to
\* right.  The range is halved, and the left half is evaluated (its
\* square_index is compared, which is never negative) before the right half
\* is entered, to keep the evaluation shallow
RECURSIVE PutPieces(_, _, _, _)
PutPieces(f, lo, hi, st) ==
    IF lo > hi THEN st
    ELSE IF lo = hi THEN PutChar(f[lo], st)
    ELSE LET mid  == (lo + hi) \div 2
             left == PutPieces(f, lo, mid, st)
         IN  IF left[1] >= 0 THEN PutPieces(f, mid + 1, hi, left) ELSE left

SetBoardFen(f) == PutPieces(f, 1, Len(f), <<0, EmptyBoard>>)[2]

\* variant: the colour is ignored
PiecesAnyColor(b, piece_type, color) == b.bb[piece_type]

\* Board.pieces(piece_type, color)
Pieces(b, piece_type, color) == b.bb[piece_type] \cap b.occupied_co[color]

(***************************************************************************)
(* bb_to_int: str(SquareSet), three replacements, int(s, 2).               *)
(***************************************************************************)
\* SquareSet.__str__: squares in SQUARES_180 order, "1" or ".", followed by
\* " " inside a rank, "\n" at the end of a rank, nothing after h1
SquareSetStr(b) ==
    [j \in 1..127 |->
        IF j % 2 = 1
        THEN IF SQUARES_180((j - 1) \div 2) \in b THEN "1" ELSE "."
        ELSE IF ((j - 2) \div 2) % 8 = 7 THEN "\n" ELSE " "]

\* variant: the replacement character is "1"
ReplaceByOne(s, old, new) == [j \in 1..Len(s) |-> IF s[j] = old THEN "1" ELSE s[j]]

\* s.replace(old, new) for one-character old and new
Replace(s, old, new) == [j \in 1..Len(s) |-> IF s[j] = old THEN new ELSE s[j]]

\* s.replace(old, ""): the characters other than old, in order (the string
\* is halved to keep the evaluation shallow)
RECURSIVE Delete(_, _)
Delete(s, old) ==
    IF Len(s) = 0 THEN <<>>
    ELSE IF Len(s) = 1 THEN (IF s[1] = old THEN <<>> ELSE s)
    ELSE LET mid == Len(s) \div 2 IN
         Delete(SubSeq(s, 1, mid), old) \o Delete(SubSeq(s, mid + 1, Len(s)), old)

\* int(s, 2) of a string of "0" and "1": the exponents of the set bits
Int2(s) == {Len(s) - j : j \in {k \in 1..Len(s) : s[k] = "1"}}

bb_to_int(b) ==
    LET s0 == SquareSetStr(b)
        s1 == Replace(s0, ".", "0")
        s2 == Delete(s1, " ")
        s3 == Delete(s2, "\n")
    IN  Int2(s3)

\* SquareSet.__or__
Union2(a, b) == a \cup b

\* variant: all = white
AllWhiteOnly(w, b) == w

\* line 24: all = white | black
AllOf(w, b) == Union2(w, b)

(***************************************************************************)
(* The inputs: fields built from rank segments.                            *)
(***************************************************************************)
Empty8 == <<"8">>

Segs ==
    { <<"8">>,
      <<"4", "4">>,
      <<"7">>,
      <<"7", "X">>,
      <<"Q", "~", "7">>,
      <<"P", "7">>,
      <<"P", "8">>,
      <<"~", "8">>,
      <<"4", "k", "3">>,
      <<"p", "3", "P", "2", "K">>,
      <<"r", "n", "b", "q", "k", "b", "n", "r">>,
      <<"R", "N", "B", "Q", "K", "B", "N", "R">> }

RECURSIVE Join(_)
Join(rows) ==
    IF Len(rows) = 1 THEN rows[1]
    ELSE Join(SubSeq(rows, 1, Len(rows) - 1)) \o <<"/">> \o rows[Len(rows)]

\* the ranks (positions in the field) that may hold a segment other than "8"
CustomRows(n) == {1, 2, 4, 7, n}

\* the fields of n segments with at most k segments other than "8"
RowsWith(n, k) ==
    { [i \in 1..n |-> IF i \in DOMAIN c THEN c[i] ELSE Empty8] :
        c \in UNION { [P -> Segs] :
                        P \in {Q \in SUBSET CustomRows(n) : Cardinality(Q) <= k} } }

StartingRows ==
    << <<"r", "n", "b", "q", "k", "b", "n", "r">>,
       <<"p", "p", "p", "p", "p", "p", "p", "p">>,
       <<"8">>, <<"8">>, <<"8">>, <<"8">>,
       <<"P", "P", "P", "P", "P", "P", "P", "P">>,
       <<"R", "N", "B", "Q", "K", "B", "N", "R">> >>

StartingField == Join(StartingRows)

\* r1bqkb1r/pppp1ppp/2n2n2/4p3/2B1P3/5N2/PPPP1PPP/RNBQK2R
OpeningField ==
    Join(<< <<"r", "1", "b", "q", "k", "b", "1", "r">>,
            <<"p", "p", "p", "p", "1", "p", "p", "p">>,
            <<"2", "n", "2", "n", "2">>,
            <<"4", "p", "3">>,
            <<"2", "B", "1", "P", "3">>,
            <<"5", "N", "2">>,
            <<"P", "P", "P", "P", "1", "P", "P", "P">>,
            <<"R", "N", "B", "Q", "K", "2", "R">> >>)

\* 8/5k2/3p4/1p1Pp2p/pP2Pp1P/P4P1K/8/8
EndgameField ==
    Join(<< <<"8">>,
            <<"5", "k", "2">>,
            <<"3", "p", "4">>,
            <<"1", "p", "1", "P", "p", "2", "p">>,
            <<"p", "P", "2", "P", "p", "1", "P">>,
            <<"P", "4", "P", "1", "K">>,
            <<"8">>,
            <<"8">> >>)

EmptyField == Join([i \in 1..8 |-> Empty8])

Inputs ==
    { Join(rows) : rows \in RowsWith(8, MaxCustom)
                           \cup RowsWith(7, MaxCustomOdd)
                           \cup RowsWith(9, MaxCustomOdd) }
    \cup {StartingField, OpeningField, EndgameField}

(***************************************************************************)
(* The script.                                                             *)
(***************************************************************************)
Init ==
    /\ fen \in Inputs
    /\ pc = "line7"
    /\ board = EmptyBoard
    /\ err = "none"
    /\ WP = {} /\ WR = {} /\ WN = {} /\ WB = {} /\ WK = {} /\ WQ = {}
    /\ BP = {} /\ BR = {} /\ BN = {} /\ BB = {} /\ BK = {} /\ BQ = {}
    /\ white = {} /\ black = {} /\ all = {}
    /\ out = <<>>

\* line 7: board = chess.Board(fen); a ValueError ends the script
NewBoard ==
    /\ pc = "line7"
    /\ LET v == ValidateFen(fen) IN
       IF v = "ok"
       THEN /\ board' = SetBoardFen(fen)
            /\ err' = "none"
            /\ pc' = "line8"
       ELSE /\ board' = board
            /\ err' = v
            /\ pc' = "raised"
    /\ UNCHANGED <<fen, WP, WR, WN, WB, WK, WQ, BP, BR, BN, BB, BK, BQ,
                   white, black, all, out>>

\* lines 8-13
WhitePieces ==
    /\ pc = "line8"
    /\ WP' = Pieces(board, PAWN, WHITE)
    /\ WR' = Pieces(board, ROOK, WHITE)
    /\ WN' = Pieces(board, KNIGHT, WHITE)
    /\ WB' = Pieces(board, BISHOP, WHITE)
    /\ WK' = Pieces(board, KING, WHITE)
    /\ WQ' = Pieces(board, QUEEN, WHITE)
    /\ pc' = "line15"
    /\ UNCHANGED <<fen, board, err, BP, BR, BN, BB, BK, BQ,
                   white, black, all, out>>

\* lines 15-20
BlackPieces ==
    /\ pc = "line15"
    /\ BP' = Pieces(board, PAWN, BLACK)
    /\ BR' = Pieces(board, ROOK, BLACK)
    /\ BN' = Pieces(board, KNIGHT, BLACK)
    /\ BB' = Pieces(board, BISHOP, BLACK)
    /\ BK' = Pieces(board, KING, BLACK)
    /\ BQ' = Pieces(board, QUEEN, BLACK)
    /\ pc' = "line22"
    /\ UNCHANGED <<fen, board, err, WP, WR, WN, WB, WK, WQ,
                   white, black, all, out>>

\* lines 22-24
Occupancy ==
    /\ pc = "line22"
    /\ LET w == Union2(Union2(Union2(Union2(Union2(WP, WR), WN), WB), WK), WQ)
           b == Union2(Union2(Union2(Union2(Union2(BP, BR), BN), BB), BK), BQ)
       IN  /\ white' = w
           /\ black' = b
           /\ all' = AllOf(w, b)
    /\ pc' = "line33"
    /\ UNCHANGED <<fen, board, err, WP, WR, WN, WB, WK, WQ,
                   BP, BR, BN, BB, BK, BQ, out>>

\* lines 33-39
PrintWhite ==
    /\ pc = "line33"
    /\ out' = out \o << <<"White Pawn:", bb_to_int(WP)>>,
                        <<"White Rooks:", bb_to_int(WR)>>,
                        <<"White Knights:", bb_to_int(WN)>>,
                        <<"White Bishops:", bb_to_int(WB)>>,
                        <<"White King:", bb_to_int(WK)>>,
                        <<"White Queen:", bb_to_int(WQ)>>,
                        <<>> >>
    /\ pc' = "line41"
    /\ UNCHANGED <<fen, board, err, WP, WR, WN, WB, WK, WQ,
                   BP, BR, BN, BB, BK, BQ, white, black, all>>

\* lines 41-47
PrintBlack ==
    /\ pc = "line41"
    /\ out' = out \o << <<"Black Pawn:", bb_to_int(BP)>>,
                        <<"Black Rooks:", bb_to_int(BR)>>,
                        <<"Black Knights:", bb_to_int(BN)>>,
                        <<"Black Bishops:", bb_to_int(BB)>>,
                        <<"Black King:", bb_to_int(BK)>>,
                        <<"Black Queen:", bb_to_int(BQ)>>,
                        <<>> >>
    /\ pc' = "line49"
    /\ UNCHANGED <<fen, board, err, WP, WR, WN, WB, WK, WQ,
                   BP, BR, BN, BB, BK, BQ, white, black, all>>

\* line 49
PrintAll ==
    /\ pc = "line49"
    /\ out' = Append(out, <<"All Pieces:", bb_to_int(all)>>)
    /\ pc' = "done"
    /\ UNCHANGED <<fen, board, err, WP, WR, WN, WB, WK, WQ,
                   BP, BR, BN, BB, BK, BQ, white, black, all>>

Next ==
    \/ NewBoard
    \/ WhitePieces
    \/ BlackPieces
    \/ Occupancy
    \/ PrintWhite
    \/ PrintBlack
    \/ PrintAll

Spec == Init /\ [][Next]_vars

(***************************************************************************)
(* Vocabulary of the properties.                                           *)
(***************************************************************************)
\* the piece letter of each printed bitboard, in print order
Letters == <<"P", "R", "N", "B", "K", "Q", "p", "r", "n", "b", "k", "q">>

LetterSet == {Letters[k] : k \in 1..12}

\* the twelve square sets, in print order
BBVar(k) == <<WP, WR, WN, WB, WK, WQ, BP, BR, BN, BB, BK, BQ>>[k]

\* the integer printed for the k-th bitboard (a blank line follows the sixth)
Reported(k) == out[IF k <= 6 THEN k ELSE k + 1][2]

\* the integer printed as "All Pieces"
ReportedAll == out[15][2]

PiecesTaken == pc \in {"line22", "line33", "line41", "line49", "done"}

OccupancyTaken == pc \in {"line33", "line41", "line49", "done"}

\* a rank segment expanded: digit d = d empty squares, any other character itself
RECURSIVE ExpandRow(_)
ExpandRow(row) ==
    IF row = <<>> THEN <<>>
    ELSE LET c == Head(row) IN
         (IF c \in Digits THEN [j \in 1..DigitValue(c) |-> "."] ELSE <<c>>)
            \o ExpandRow(Tail(row))

OnlyRecognized(row) == \A j \in 1..Len(row) : row[j] \in Digits \cup LetterSet

\* a valid piece-placement field in the sense of the specification
ClaimValid(f) ==
    LET rows == Split(f) IN
    /\ Len(rows) = 8
    /\ \A i \in 1..8 : OnlyRecognized(rows[i]) /\ Len(ExpandRow(rows[i])) = 8

\* the board a valid field describes: Grid(f)[r][fl + 1] is what stands on
\* file fl of the rank with index r (0 = the last segment)
Grid(f) == LET rows == Split(f) IN [r \in 0..7 |-> ExpandRow(rows[8 - r])]

\* the squares r*8 + fl on which the grid has the character c
SquaresOf(g, c) ==
    {p[1] * 8 + p[2] : p \in {q \in (0..7) \X (0..7) : g[q[1]][q[2] + 1] = c}}

Count(c, f) == Cardinality({i \in 1..Len(f) : f[i] = c})

HasAdjacentDigits(row) ==
    \E j \in 1..(Len(row) - 1) : row[j] \in Digits /\ row[j + 1] \in Digits

\* a "~" that does not directly follow a piece letter
HasMisplacedTilde(row) ==
    \E j \in 1..Len(row) :
        row[j] = "~" /\ (j = 1 \/ row[j - 1] \notin LetterSet)

LastRowField(seg) == Join([i \in 1..8 |-> IF i = 8 THEN seg ELSE Empty8])

(***************************************************************************)
(* C1: whenever the script has taken the twelve bitboards from the parsed  *)
(* board, any two distinct ones have no square in common, and once they    *)
(* are printed any two of the twelve printed integers have bitwise AND 0.  *)
(***************************************************************************)
C1_PairwiseDisjoint ==
    /\ PiecesTaken =>
         \A k, m \in 1..12 : k # m => BBVar(k) \cap BBVar(m) = {}
    /\ pc = "done" =>
         \A k, m \in 1..12 : k # m => Reported(k) \cap Reported(m) = {}

C1_Witness ==
    /\ pc = "done"
    /\ ClaimValid(fen)
    /\ Cardinality({k \in 1..12 : Reported(k) # {}}) >= 3

(***************************************************************************)
(* C2: for each of the twelve letters, the population count of the integer *)
(* printed for that letter's bitboard is the number of occurrences of the  *)
(* letter in the field; for "8/8/8/8/8/8/8/8" the twelve integers and      *)
(* "All Pieces" are 0.                                                     *)
(***************************************************************************)
C2_PopulationCounts ==
    pc = "done" =>
      /\ \A k \in 1..12 : Cardinality(Reported(k)) = Count(Letters[k], fen)
      /\ fen = EmptyField =>
           (\A k \in 1..12 : Reported(k) = {}) /\ ReportedAll = {}

C2_Witness ==
    /\ pc = "done"
    /\ ClaimValid(fen)
    /\ \E k \in 1..12 : Count(Letters[k], fen) >= 2
    /\ \E k \in 1..12 : Count(Letters[k], fen) = 0

(***************************************************************************)
(* C3: white is the union of the six white bitboards, black the union of   *)
(* the six black ones, all = white | black, and popcount(all) =            *)
(* popcount(white) + popcount(black), for the square sets and for the      *)
(* integers bb_to_int gives for them.                                      *)
(***************************************************************************)
C3_Occupancy ==
    OccupancyTaken =>
      /\ white = UNION {BBVar(k) : k \in 1..6}
      /\ black = UNION {BBVar(k) : k \in 7..12}
      /\ all = white \cup black
      /\ Cardinality(all) = Cardinality(white) + Cardinality(black)
      /\ bb_to_int(all) = bb_to_int(white) \cup bb_to_int(black)
      /\ Cardinality(bb_to_int(all)) =
            Cardinality(bb_to_int(white)) + Cardinality(bb_to_int(black))

C3_Witness ==
    /\ OccupancyTaken
    /\ ClaimValid(fen)
    /\ Cardinality(white) >= 2
    /\ Cardinality(black) >= 2

(***************************************************************************)
(* C4: in the integer printed for a letter's bitboard, bit i is set iff    *)
(* that letter stands on the square with r*8 + f = i, where r = 0 is the   *)
(* segment given last and f = 0 the leftmost square of a segment.          *)
(***************************************************************************)
C4_BitIsRankTimes8PlusFile ==
    (pc = "done" /\ ClaimValid(fen)) =>
      LET g == Grid(fen) IN
      \A k \in 1..12 : Reported(k) = SquaresOf(g, Letters[k])

\* 8 segments of recognized characters, one of them not expanding to 8 squares
C5_Pre(f) ==
    LET rows == Split(f) IN
    /\ Len(rows) = 8
    /\ \A i \in 1..8 : OnlyRecognized(rows[i])
    /\ \E i \in 1..8 : Len(ExpandRow(rows[i])) # 8

C5_FirstBad(rows) ==
    CHOOSE i \in 1..8 :
      /\ HasAdjacentDigits(rows[i]) \/ Len(ExpandRow(rows[i])) # 8
      /\ \A h \in 1..(i - 1) :
           ~HasAdjacentDigits(rows[h]) /\ Len(ExpandRow(rows[h])) = 8

C6_HasUnrecognized(f) ==
    \E j \in 1..Len(f) : f[j] \notin Digits \cup LetterSet \cup {"/"}

C6_Pre(f) ==
    LET rows == Split(f) IN
    /\ Len(rows) = 8
    /\ \E i \in 1..8 : \E j \in 1..Len(rows[i]) :
         /\ rows[i][j] \notin Digits \cup LetterSet \cup {"~"}
         /\ \A h \in 1..(i - 1) :
              /\ \A m \in 1..Len(rows[h]) :
                   rows[h][m] \in Digits \cup LetterSet \cup {"~"}
              /\ Len(ExpandRow(rows[h])) - Count("~", rows[h]) = 8
              /\ ~HasAdjacentDigits(rows[h])
              /\ ~HasMisplacedTilde(rows[h])
         /\ \A m \in 1..(j - 1) :
              rows[i][m] \in Digits \cup LetterSet \cup {"~"}
         /\ ~HasAdjacentDigits(SubSeq(rows[i], 1, j - 1))
         /\ ~HasMisplacedTilde(SubSeq(rows[i], 1, j - 1))

C7_StructuralError ==
    (Len(Split(fen)) # 8 /\ pc # "line7") =>
      /\ pc = "raised"
      /\ err = "rows"
      /\ out = <<>>
      /\ board = EmptyBoard
      /\ \A k \in 1..12 : BBVar(k) = {}

C7_Witness ==
    /\ Len(Split(fen)) = 9
    /\ \E i \in 1..Len(fen) : fen[i] \in LetterSet
    /\ pc = "raised"
    /\ err = "rows"

(***************************************************************************)
(* C8: for the standard starting position the printed white-pawn and       *)
(* black-pawn integers have 8 set bits each, "All Pieces" has 32, and the  *)
(* white-king integer has exactly the bit of file e (4) of White's back    *)
(* rank (rank index 0) set, that is bit 0*8 + 4.                           *)
(***************************************************************************)
C8_StartingPosition ==
    (fen = StartingField /\ pc # "line7") =>
      /\ pc # "raised"
      /\ pc = "done" =>
           /\ Cardinality(Reported(1)) = 8
           /\ Cardinality(Reported(7)) = 8
           /\ Cardinality(ReportedAll) = 32
           /\ Reported(5) = {0 * 8 + 4}

(***************************************************************************)
(* The inverse operation of the round trip: a placement string rendered    *)
(* from twelve bitboards.                                                  *)
(***************************************************************************)
\* the twelve square sets of a parsed board, in print order
BoardSets(b) ==
    [k \in 1..12 |-> Pieces(b, PieceTypeOf(Letters[k]), IsUpper(Letters[k]))]

SymbolAt(sets, sq) ==
    IF \E k \in 1..12 : sq \in sets[k]
    THEN Letters[CHOOSE k \in 1..12 : sq \in sets[k]]
    ELSE "."

DigitChar(n) == CHOOSE c \in Digits : DigitValue(c) = n

\* one rank rendered left to right, runs of empty squares as one digit
RECURSIVE RenderRank(_, _, _, _)
RenderRank(sets, r, fl, empties) ==
    IF fl > 7
    THEN IF empties > 0 THEN <<DigitChar(empties)>> ELSE <<>>
    ELSE LET c == SymbolAt(sets, r * 8 + fl) IN
         IF c = "." THEN RenderRank(sets, r, fl + 1, empties + 1)
         ELSE (IF empties > 0 THEN <<DigitChar(empties)>> ELSE <<>>)
                \o <<c>> \o RenderRank(sets, r, fl + 1, 0)

\* the placement string of twelve bitboards, the top rank first
Render(sets) == Join([i \in 1..8 |-> RenderRank(sets, 8 - i, 0, 0)])

RoundTrip ==
    LET sets == [k \in 1..12 |-> BBVar(k)]
        g    == Render(sets)
        grid == Grid(fen)
    IN  /\ ValidateFen(g) = "ok"
        /\ ClaimValid(g)
        /\ Grid(g) = grid
        /\ BoardSets(SetBoardFen(g)) = sets
        /\ \A k \in 1..12 : sets[k] = SquaresOf(grid, Letters[k])

C9_Pre(f) ==
    /\ ClaimValid(f)
    /\ \A i \in 1..8 : ~HasAdjacentDigits(Split(f)[i])

C10_AllIsOrOfPrinted ==
    pc = "done" => ReportedAll = UNION {Reported(k) : k \in 1..12}

C10_Witness ==
    /\ pc = "done"
    /\ ClaimValid(fen)
    /\ Cardinality({k \in 1..12 : Reported(k) # {}}) >= 2
    /\ Cardinality(ReportedAll) >= 3

====
